---- MODULE Spec2Model ----
(***************************************************************************)
(* The IBM DNS Services (private zones) provider of the cluster ingress    *)
(* operator: pkg/dns/ibm/private/dnssvcs-provider.go.                      *)
(*                                                                         *)
(* Ensure, Replace and Delete reconcile one desired DNS record against the *)
(* records of a remote zone, through a per-zone client.  A call is modelled*)
(* as a process that moves from one remote call to the next; the local     *)
(* code between two remote calls is part of the step of the first one.     *)
(* The remote service is a per-zone ordered list of resource records.      *)
(***************************************************************************)
EXTENDS Integers, Sequences, FiniteSets, TLC

VARIABLES provider, dnsServices, store, nextId, call, faults

vars == <<provider, dnsServices, store, nextId, call, faults>>

(***************************************************************************)
(* Bounds of the model.                                                    *)
(***************************************************************************)
MaxTargets == 2
MaxRemote == 2
MaxFaults == 1
MaxCalls == 2
TTLSpread == 1

(***************************************************************************)
(* Program constants.                                                      *)
(***************************************************************************)
ZONEIDFORTESTING == "1357a51b-f6ba-4bd4-a8a7-dd509499c08f"
defaultDNSSVCSRecordTTL == 120
AllowedTTLs == <<1, 60, 120, 300, 600, 900, 1800, 3600, 7200, 18000, 43200>>
StatusOK == 200
StatusNotFound == 404
StatusRequestTimeout == 408
\* response == nil: the call produced no response object
NoResponse == 0

(***************************************************************************)
(* Values.  A DNS name is a sequence of characters, so that trimming the   *)
(* trailing "." is computed and not assumed.                               *)
(***************************************************************************)
Min(S) == CHOOSE x \in S : \A y \in S : x <= y
SeqsUpTo(S, n) == UNION {[1..k -> S] : k \in 0..n}

\* variant: removes every trailing "."
TrimSuffix_AllDots(s, c) ==
  LET n == CHOOSE k \in 0..Len(s) :
             /\ \A m \in (k + 1)..Len(s) : s[m] = c
             /\ k > 0 => s[k] # c
  IN  SubSeq(s, 1, n)

\* strings.TrimSuffix(s, "."): removes one trailing "." when there is one
TrimSuffix(s, c) ==
  IF Len(s) > 0 /\ s[Len(s)] = c THEN SubSeq(s, 1, Len(s) - 1) ELSE s

\* record == nil
NilRecord ==
  [isNil |-> TRUE, DNSName |-> <<>>, RecordType |-> "", Targets |-> <<>>,
   RecordTTL |-> 0]

DNSRecord(name, type, targets, ttl) ==
  [isNil |-> FALSE, DNSName |-> name, RecordType |-> type,
   Targets |-> targets, RecordTTL |-> ttl]

\* a resource record of the remote service; Rdata is the loosely typed payload
ResourceRecord(id, name, type, rdata, ttl) ==
  [ID |-> id, Name |-> name, Type |-> type, Rdata |-> rdata, TTL |-> ttl]

RdataCname(t) == [kind |-> "cname", value |-> t]
RdataA(t) == [kind |-> "ip", value |-> t]
\* the payload of a record of another type
RdataText(t) == [kind |-> "text", value |-> t]
\* a payload that is not a map[string]interface{}
RdataNotMap == [kind |-> "notmap", value |-> ""]

\* the return value of a call: nil, or an error of one kind
NoReturn == [kind |-> "running", errs |-> <<>>]
ReturnNil == [kind |-> "nil", errs |-> <<>>]
ReturnErr(k) == [kind |-> k, errs |-> <<>>]

(***************************************************************************)
(* validateInputDNSData: every failed check adds one error; the aggregate  *)
(* of an empty list is nil.                                                *)
(***************************************************************************)
\* variant: the check of the name is missing
validateInputDNSData_NoNameCheck(record, zone) ==
  LET recErrs ==
        IF record.isNil
        THEN <<"dns record is nil">>
        ELSE (IF record.RecordType = ""
              THEN <<"dns record type is empty">> ELSE <<>>)
             \o (IF Len(record.Targets) = 0
                 THEN <<"dns record content is empty">> ELSE <<>>)
      zoneErrs == IF zone = "" THEN <<"dns zone id is empty">> ELSE <<>>
  IN  recErrs \o zoneErrs

\* variant: validation stops at the first failing check
validateInputDNSData_FirstOnly(record, zone) ==
  IF record.isNil THEN <<"dns record is nil">>
  ELSE IF Len(record.DNSName) = 0 THEN <<"dns record name is empty">>
  ELSE IF record.RecordType = "" THEN <<"dns record type is empty">>
  ELSE IF Len(record.Targets) = 0 THEN <<"dns record content is empty">>
  ELSE IF zone = "" THEN <<"dns zone id is empty">>
  ELSE <<>>

validateInputDNSData(record, zone) ==
  LET recErrs ==
        IF record.isNil
        THEN <<"dns record is nil">>
        ELSE (IF Len(record.DNSName) = 0
              THEN <<"dns record name is empty">> ELSE <<>>)
             \o (IF record.RecordType = ""
                 THEN <<"dns record type is empty">> ELSE <<>>)
             \o (IF Len(record.Targets) = 0
                 THEN <<"dns record content is empty">> ELSE <<>>)
      zoneErrs == IF zone = "" THEN <<"dns zone id is empty">> ELSE <<>>
  IN  recErrs \o zoneErrs

\* kerrors.NewAggregate(errs) wrapped as "invalid dns input data"
InvalidInput(errs) == [kind |-> "InvalidInput", errs |-> errs]

(***************************************************************************)
(* TTL normalization of createOrUpdateDNSRecord.                           *)
(***************************************************************************)
\* variant: the loop over the allowed values misses the last one
useDefaultTTL_SkipsLast(ttl) ==
  \A k \in 1..(Len(AllowedTTLs) - 1) : AllowedTTLs[k] # ttl

useDefaultTTL(ttl) == \A k \in 1..Len(AllowedTTLs) : AllowedTTLs[k] # ttl

NormalizedTTL(ttl) ==
  IF useDefaultTTL(ttl) THEN defaultDNSSVCSRecordTTL ELSE ttl

(***************************************************************************)
(* Extraction of the comparison target of a remote record.  ok is FALSE    *)
(* when the type assertion on Rdata fails.  fmt.Sprint of a missing map    *)
(* key prints "<nil>"; a record of another type keeps the zero value "".   *)
(***************************************************************************)
Sprint(rdata, key) == IF rdata.kind = key THEN rdata.value ELSE "<nil>"

resourceRecordTarget(rr) ==
  IF rr.Type = "CNAME"
  THEN IF rr.Rdata.kind = "notmap"
       THEN [ok |-> FALSE, target |-> ""]
       ELSE [ok |-> TRUE, target |-> Sprint(rr.Rdata, "cname")]
  ELSE IF rr.Type = "A"
       THEN IF rr.Rdata.kind = "notmap"
            THEN [ok |-> FALSE, target |-> ""]
            ELSE [ok |-> TRUE, target |-> Sprint(rr.Rdata, "ip")]
       ELSE [ok |-> TRUE, target |-> ""]

\* variant: the match looks at the name only
Matches_NameOnly(rr, name, target) ==
  /\ resourceRecordTarget(rr).ok
  /\ rr.Name = name

\* variant: the match looks at the target only
Matches_TargetOnly(rr, name, target) ==
  /\ resourceRecordTarget(rr).ok
  /\ resourceRecordTarget(rr).target = target

\* the match test of both loops
Matches(rr, name, target) ==
  /\ resourceRecordTarget(rr).ok
  /\ rr.Name = name
  /\ resourceRecordTarget(rr).target = target

(***************************************************************************)
(* The state of one call.  pc names the remote call the code is about to   *)
(* make; ops is the log of the remote calls the current call has made.     *)
(* record is the caller's object, which createOrUpdateDNSRecord writes to; *)
(* desired is its value when the call was entered.  prev keeps the         *)
(* caller's previous call: its operation, its return value, whether one of *)
(* its remote calls was answered with a fault, and the records of the zone *)
(* when the present call was entered.                                      *)
(***************************************************************************)
Procs == DOMAIN call

\* what a call remembers of the call the same caller made before it
NoCall == [op |-> "none", ret |-> NoReturn, fault |-> FALSE, zone |-> <<>>]

IdleCall(record, zone, left) ==
  [op |-> "none", record |-> record, desired |-> record, zone |-> zone,
   pc |-> "idle",
   DNSName |-> <<>>, i |-> 0, j |-> 0, listed |-> <<>>, update |-> FALSE,
   ops |-> <<>>, ret |-> NoReturn, left |-> left, prev |-> NoCall]

Return(c, r) ==
  [c EXCEPT !.pc = "done", !.ret = r, !.j = 0, !.listed = <<>>,
            !.update = FALSE]

\* one entry of the log of remote calls
RemoteOp(op, c, id, type, ttl, o, fault, result, records) ==
  [op |-> op, zone |-> ZONEIDFORTESTING, i |-> c.i, id |-> id,
   name |-> IF op = "List" \/ op = "Delete" THEN <<>> ELSE c.DNSName,
   type |-> type,
   target |-> IF op = "List" THEN "" ELSE c.record.Targets[c.i],
   ttl |-> ttl, err |-> o.err, status |-> o.status, fault |-> fault,
   result |-> result, records |-> records]

(***************************************************************************)
(* createOrUpdateDNSRecord, the loop over the targets.                     *)
(***************************************************************************)
\* the positions, from `from` on, where the inner loop stops scanning:
\* a record whose payload cannot be read, or a record that matches
ScanStops(c, target, from) ==
  {k \in from..Len(c.listed) :
     \/ ~resourceRecordTarget(c.listed[k]).ok
     \/ Matches(c.listed[k], c.DNSName, target)}

\* variant: the list is read once, before the loop over the targets
NextTarget_NoRelist(c) ==
  IF c.i < Len(c.record.Targets)
  THEN LET n == [c EXCEPT !.i = c.i + 1, !.j = 0, !.update = FALSE]
           stops == ScanStops(n, n.record.Targets[n.i], 1)
       IN  IF stops = {} THEN [n EXCEPT !.pc = "create"]
           ELSE IF ~resourceRecordTarget(n.listed[Min(stops)]).ok
                THEN Return(n, ReturnErr("MalformedRemoteRecord"))
                ELSE [n EXCEPT !.pc = "update", !.j = Min(stops)]
  ELSE Return(c, ReturnNil)

\* variant: update is not reset at the start of a pass
NextTarget_UpdateNotReset(c) ==
  IF c.i < Len(c.record.Targets)
  THEN [c EXCEPT !.i = c.i + 1, !.pc = "list", !.j = 0, !.listed = <<>>]
  ELSE Return(c, ReturnNil)

\* the end of one pass of "for _, target := range record.Spec.Targets"
NextTarget(c) ==
  IF c.i < Len(c.record.Targets)
  THEN [c EXCEPT !.i = c.i + 1, !.pc = "list", !.j = 0, !.listed = <<>>,
                 !.update = FALSE]
  ELSE Return(c, ReturnNil)

\* variant: the inner loop ends at the first record it has updated
createOrUpdateScan_FirstMatchOnly(c, from) ==
  LET stops == ScanStops(c, c.record.Targets[c.i], from)
  IN  IF c.update THEN NextTarget(c)
      ELSE IF stops = {}
           THEN [c EXCEPT !.pc = "create", !.j = 0]
           ELSE LET k == Min(stops)
                IN  IF ~resourceRecordTarget(c.listed[k]).ok
                    THEN Return(c, ReturnErr("MalformedRemoteRecord"))
                    ELSE [c EXCEPT !.pc = "update", !.j = k]

\* the inner loop "for _, resourceRecord := range listResult.ResourceRecords"
\* from position `from`, up to the next remote call or return
createOrUpdateScan(c, from) ==
  LET stops == ScanStops(c, c.record.Targets[c.i], from)
  IN  IF stops = {}
      THEN IF c.update THEN NextTarget(c)
           ELSE [c EXCEPT !.pc = "create", !.j = 0]
      ELSE LET k == Min(stops)
           IN  IF ~resourceRecordTarget(c.listed[k]).ok
               THEN Return(c, ReturnErr("MalformedRemoteRecord"))
               ELSE [c EXCEPT !.pc = "update", !.j = k]

(***************************************************************************)
(* Delete, the loops over the targets and the listed records.              *)
(***************************************************************************)
DeleteStops(c, i, from) ==
  {e \in (i..Len(c.record.Targets)) \X (1..Len(c.listed)) :
     /\ e[1] > i \/ e[2] >= from
     /\ \/ ~resourceRecordTarget(c.listed[e[2]]).ok
        \/ Matches(c.listed[e[2]], c.DNSName, c.record.Targets[e[1]])}

\* variant: the inner loop ends at the first record it has deleted
deleteScan_FirstMatchOnly(c, i, from) ==
  LET stops == IF from > 1 THEN DeleteStops(c, i + 1, 1)
               ELSE DeleteStops(c, i, from)
  IN  IF stops = {}
      THEN Return([c EXCEPT !.i = Len(c.record.Targets)], ReturnNil)
      ELSE LET e == CHOOSE x \in stops : \A y \in stops :
                      x[1] < y[1] \/ (x[1] = y[1] /\ x[2] <= y[2])
           IN  IF ~resourceRecordTarget(c.listed[e[2]]).ok
               THEN Return([c EXCEPT !.i = e[1]],
                           ReturnErr("MalformedRemoteRecord"))
               ELSE [c EXCEPT !.pc = "delete", !.i = e[1], !.j = e[2]]

deleteScan(c, i, from) ==
  LET stops == DeleteStops(c, i, from)
  IN  IF stops = {}
      THEN Return([c EXCEPT !.i = Len(c.record.Targets)], ReturnNil)
      ELSE LET e == CHOOSE x \in stops : \A y \in stops :
                      x[1] < y[1] \/ (x[1] = y[1] /\ x[2] <= y[2])
           IN  IF ~resourceRecordTarget(c.listed[e[2]]).ok
               THEN Return([c EXCEPT !.i = e[1]],
                           ReturnErr("MalformedRemoteRecord"))
               ELSE [c EXCEPT !.pc = "delete", !.i = e[1], !.j = e[2]]

(***************************************************************************)
(* The remote service.  A remote call answers as the service would, or,    *)
(* while the budget of faults lasts, with a failure.  An outcome is the    *)
(* error, the status code of the response (NoResponse for a nil response)  *)
(* and, for a list, the result object.                                     *)
(***************************************************************************)
HasId(recs, id) == \E k \in 1..Len(recs) : recs[k].ID = id

ListAnswer == [err |-> FALSE, status |-> StatusOK, result |-> "full"]

\* a call without a response has no result object either
ListFaults ==
  [err : {TRUE}, status : {StatusNotFound, StatusRequestTimeout},
   result : {"nil", "full"}]
  \cup {[err |-> TRUE, status |-> NoResponse, result |-> "nil"]}
  \cup [err : {FALSE}, status : {StatusNotFound}, result : {"nil", "full"}]

ListOutcomes == {ListAnswer} \cup (IF faults > 0 THEN ListFaults ELSE {})

WriteAnswer(known) ==
  IF known THEN [err |-> FALSE, status |-> StatusOK]
  ELSE [err |-> TRUE, status |-> StatusNotFound]

WriteFaults ==
  [err : {TRUE}, status : {NoResponse, StatusNotFound, StatusRequestTimeout}]
  \cup {[err |-> FALSE, status |-> StatusNotFound]}

WriteOutcomes(known) ==
  {WriteAnswer(known)} \cup (IF faults > 0 THEN WriteFaults ELSE {})

IsFault(o, answer) == o # answer

Applied(o) == ~o.err /\ o.status = StatusOK

\* the service creates the record at the end of the zone's list
StoreCreate(recs, id, name, type, rdata, ttl) ==
  Append(recs, ResourceRecord(id, name, type, rdata, ttl))

\* the service replaces name, payload and ttl of the record with this id; the
\* record's type follows the payload
StoreUpdate(recs, id, name, type, rdata, ttl) ==
  [k \in 1..Len(recs) |->
     IF recs[k].ID = id
     THEN ResourceRecord(id, name, type, rdata, ttl)
     ELSE recs[k]]

\* the service removes the record with this id
StoreDelete(recs, id) ==
  LET F[k \in 0..Len(recs)] ==
        IF k = 0 THEN <<>>
        ELSE IF recs[k].ID = id THEN F[k - 1] ELSE Append(F[k - 1], recs[k])
  IN  F[Len(recs)]

(***************************************************************************)
(* Entry of the calls: validation, lookup of the zone's client, and the    *)
(* normalization of name and TTL, up to the first remote call.             *)
(***************************************************************************)
Enter(c, op) ==
  [c EXCEPT !.op = op, !.desired = c.record, !.pc = "idle",
            !.DNSName = <<>>, !.i = 0, !.j = 0,
            !.listed = <<>>, !.update = FALSE, !.ops = <<>>,
            !.ret = NoReturn, !.left = c.left - 1,
            !.prev = [op |-> c.op, ret |-> c.ret,
                      fault |-> \E k \in 1..Len(c.ops) : c.ops[k].fault,
                      zone |-> store[ZONEIDFORTESTING]]]

createOrUpdateDNSRecord(c, op) ==
  LET errs == validateInputDNSData(c.record, c.zone)
      e == Enter(c, op)
  IN  IF errs # <<>> THEN Return(e, InvalidInput(errs))
      ELSE IF c.zone \notin dnsServices
           THEN Return(e, ReturnErr("UnknownZone"))
           ELSE [e EXCEPT !.DNSName = TrimSuffix(c.record.DNSName, "."),
                          !.record.RecordTTL =
                              NormalizedTTL(c.record.RecordTTL),
                          !.i = 1, !.pc = "list"]

\* variant: Delete does not look the zone up in the client map
deleteEntry_NoLookup(c) ==
  LET errs == validateInputDNSData(c.record, c.zone)
      e == Enter(c, "Delete")
  IN  IF errs # <<>> THEN Return(e, InvalidInput(errs))
      ELSE [e EXCEPT !.DNSName = TrimSuffix(c.record.DNSName, "."),
                     !.i = 1, !.pc = "list"]

deleteEntry(c) ==
  LET errs == validateInputDNSData(c.record, c.zone)
      e == Enter(c, "Delete")
  IN  IF errs # <<>> THEN Return(e, InvalidInput(errs))
      ELSE IF c.zone \notin dnsServices
           THEN Return(e, ReturnErr("UnknownZone"))
           ELSE [e EXCEPT !.DNSName = TrimSuffix(c.record.DNSName, "."),
                          !.i = 1, !.pc = "list"]

(***************************************************************************)
(* NewProvider: one client per configured zone, then validateDNSServices,  *)
(* which asks every client for the zone and panics when the request fails  *)
(* or, at "*result.ID", when it comes back without a result.               *)
(***************************************************************************)
GetDnszoneOutcomes == {"ok", "err", "nilresult"}
NewDnsSvcsOutcomes == {"ok", "err"}

validateDNSServices(zones, o) ==
  IF zones = {} THEN "ready"
  ELSE IF o = "ok" THEN "ready" ELSE "panic"

NewProvider ==
  /\ provider.state = "new"
  /\ \E sdk \in NewDnsSvcsOutcomes, o \in GetDnszoneOutcomes :
       IF provider.Zones = {}
       THEN /\ provider' = [provider EXCEPT !.state = "error"]
            /\ UNCHANGED dnsServices
       ELSE IF sdk = "err"
            THEN /\ provider' = [provider EXCEPT !.state = "error"]
                 /\ UNCHANGED dnsServices
            ELSE /\ provider' = [provider EXCEPT !.state =
                                   validateDNSServices(provider.Zones, o)]
                 /\ dnsServices' = provider.Zones
  /\ UNCHANGED <<store, nextId, call, faults>>

\* variant: a call waits until no other call is under way
CanCall_OneAtATime(p) ==
  /\ provider.state = "ready"
  /\ \A q \in Procs : call[q].pc \in {"idle", "done"}
  /\ call[p].left > 0

CanCall(p) ==
  /\ provider.state = "ready"
  /\ call[p].pc \in {"idle", "done"}
  /\ call[p].left > 0

Ensure(p) ==
  /\ CanCall(p)
  /\ call' = [call EXCEPT ![p] = createOrUpdateDNSRecord(call[p], "Ensure")]
  /\ UNCHANGED <<provider, dnsServices, store, nextId, faults>>

Replace(p) ==
  /\ CanCall(p)
  /\ call' = [call EXCEPT ![p] = createOrUpdateDNSRecord(call[p], "Replace")]
  /\ UNCHANGED <<provider, dnsServices, store, nextId, faults>>

Delete(p) ==
  /\ CanCall(p)
  /\ call' = [call EXCEPT ![p] = deleteEntry(call[p])]
  /\ UNCHANGED <<provider, dnsServices, store, nextId, faults>>

(***************************************************************************)
(* The remote calls, each with the code that follows it up to the next     *)
(* remote call or the return.                                              *)
(***************************************************************************)
\* "if err != nil { if response != nil && response.StatusCode != 404 {"
listFailed(o) ==
  o.err /\ o.status # NoResponse /\ o.status # StatusNotFound

\* variant: a 404 answer to the delete is an error like any other
deleteFailed_NotFoundToo(o) == o.err /\ o.status # NoResponse

\* "if err != nil { if delResponse != nil && delResponse.StatusCode != 404 {"
deleteFailed(o) ==
  o.err /\ o.status # NoResponse /\ o.status # StatusNotFound

\* "_, _, err := dnsService.UpdateResourceRecord(updateOpt); if err != nil {"
updateFailed(o) == o.err

\* variant: the error of the create is not looked at
createFailed_Ignored(o) == FALSE

\* "_, _, err := dnsService.CreateResourceRecord(createOpt); if err != nil {"
createFailed(o) == o.err

\* variant: the payload is an A payload whatever the desired type
inputRData_AlwaysA(c) == RdataA(c.record.Targets[c.i])

\* the payload built from the desired type: CNAME, or else an A record
inputRData(c) ==
  IF c.record.RecordType = "CNAME"
  THEN RdataCname(c.record.Targets[c.i])
  ELSE RdataA(c.record.Targets[c.i])

PayloadType(rdata) == IF rdata.kind = "cname" THEN "CNAME" ELSE "A"

afterList(c, o) ==
  IF listFailed(o)
  THEN Return(c, ReturnErr("RemoteReadFailed"))
  ELSE IF o.result = "nil"
       THEN Return(c, ReturnErr("InvalidResult"))
       ELSE IF c.op = "Delete" THEN deleteScan(c, 1, 1)
            ELSE createOrUpdateScan(c, 1)

ListResourceRecords(p) ==
  /\ call[p].pc = "list"
  /\ \E o \in ListOutcomes :
       LET c == call[p]
           recs == IF o.result = "full" THEN store[ZONEIDFORTESTING]
                   ELSE <<>>
           c1 == [c EXCEPT !.listed = recs,
                           !.ops = Append(@, RemoteOp("List", c, 0, "", 0, o,
                                                      IsFault(o, ListAnswer),
                                                      o.result, recs))]
       IN  /\ call' = [call EXCEPT ![p] = afterList(c1, o)]
           /\ faults' = IF IsFault(o, ListAnswer) THEN faults - 1 ELSE faults
  /\ UNCHANGED <<provider, dnsServices, store, nextId>>

UpdateResourceRecord(p) ==
  /\ call[p].pc = "update"
  /\ LET c == call[p]
         rr == c.listed[c.j]
         known == HasId(store[ZONEIDFORTESTING], rr.ID)
         rdata == inputRData(c)
     IN  \E o \in WriteOutcomes(known) :
           LET c1 == [c EXCEPT !.ops =
                        Append(@, RemoteOp("Update", c, rr.ID,
                                           PayloadType(rdata),
                                           c.record.RecordTTL, o,
                                           IsFault(o, WriteAnswer(known)),
                                           "", <<>>))]
           IN  /\ call' = [call EXCEPT ![p] =
                    IF updateFailed(o)
                    THEN Return(c1, ReturnErr("RemoteWriteFailed"))
                    ELSE createOrUpdateScan([c1 EXCEPT !.update = TRUE],
                                            c.j + 1)]
               /\ store' = IF Applied(o)
                           THEN [store EXCEPT ![ZONEIDFORTESTING] =
                                   StoreUpdate(@, rr.ID, c.DNSName,
                                               PayloadType(rdata), rdata,
                                               c.record.RecordTTL)]
                           ELSE store
               /\ faults' = IF IsFault(o, WriteAnswer(known))
                            THEN faults - 1 ELSE faults
  /\ UNCHANGED <<provider, dnsServices, nextId>>

CreateResourceRecord(p) ==
  /\ call[p].pc = "create"
  /\ LET c == call[p]
         rdata == inputRData(c)
     IN  \E o \in WriteOutcomes(TRUE) :
           LET c1 == [c EXCEPT !.ops =
                        Append(@, RemoteOp("Create", c, 0,
                                           c.record.RecordType,
                                           c.record.RecordTTL, o,
                                           IsFault(o, WriteAnswer(TRUE)),
                                           "", <<>>))]
           IN  /\ call' = [call EXCEPT ![p] =
                    IF createFailed(o)
                    THEN Return(c1, ReturnErr("RemoteWriteFailed"))
                    ELSE NextTarget(c1)]
               /\ store' = IF Applied(o)
                           THEN [store EXCEPT ![ZONEIDFORTESTING] =
                                   StoreCreate(@, nextId, c.DNSName,
                                               c.record.RecordType, rdata,
                                               c.record.RecordTTL)]
                           ELSE store
               /\ nextId' = IF Applied(o) THEN nextId + 1 ELSE nextId
               /\ faults' = IF IsFault(o, WriteAnswer(TRUE))
                            THEN faults - 1 ELSE faults
  /\ UNCHANGED <<provider, dnsServices>>

DeleteResourceRecord(p) ==
  /\ call[p].pc = "delete"
  /\ LET c == call[p]
         rr == c.listed[c.j]
         known == HasId(store[ZONEIDFORTESTING], rr.ID)
     IN  \E o \in WriteOutcomes(known) :
           LET c1 == [c EXCEPT !.ops =
                        Append(@, RemoteOp("Delete", c, rr.ID, "", 0, o,
                                           IsFault(o, WriteAnswer(known)),
                                           "", <<>>))]
           IN  /\ call' = [call EXCEPT ![p] =
                    IF deleteFailed(o)
                    THEN Return(c1, ReturnErr("RemoteWriteFailed"))
                    ELSE deleteScan(c1, c.i, c.j + 1)]
               /\ store' = IF Applied(o)
                           THEN [store EXCEPT ![ZONEIDFORTESTING] =
                                   StoreDelete(@, rr.ID)]
                           ELSE store
               /\ faults' = IF IsFault(o, WriteAnswer(known))
                            THEN faults - 1 ELSE faults
  /\ UNCHANGED <<provider, dnsServices, nextId>>

(***************************************************************************)
(* Initial states: the provider's client map, the remote zones, and the    *)
(* desired record and zone a caller reconciles.                            *)
(***************************************************************************)
NameA == <<"a">>
NameADot == <<"a", ".">>
NameADotDot == <<"a", ".", ".">>
NameB == <<"b">>

TargetValues == {"t1", "t2"}
TTLValues == {61}

ValidRecords ==
  {DNSRecord(n, ty, ts, ttl) :
     n \in {NameA, NameADot}, ty \in {"A", "CNAME"},
     ts \in SeqsUpTo(TargetValues, MaxTargets) \ {<<>>}, ttl \in TTLValues}

\* every combination of the three checks on the record failing, and nil
InvalidRecords ==
  {NilRecord}
  \cup ({DNSRecord(n, ty, ts, 60) :
           n \in {<<>>, NameA}, ty \in {"", "A"}, ts \in {<<>>, <<"t1">>}}
        \ {DNSRecord(NameA, "A", <<"t1">>, 60)})

ZoneIds == {"", "z1", "z2"}
ClientMaps == {{"z1"}, {"z1", "z2"}}

\* what a caller passes, and the client map of the provider it calls: every
\* valid record on a known zone, and every invalid record and one valid
\* record on every zone id and every client map
CallerInputs ==
  {[map |-> {"z1"}, record |-> r, zone |-> "z1"] : r \in ValidRecords}
  \cup [map : ClientMaps,
        record : InvalidRecords \cup {DNSRecord(NameA, "A", <<"t1">>, 60)},
        zone : ZoneIds]
  \cup {[map |-> {}, record |-> DNSRecord(NameA, "A", <<"t1">>, 60),
         zone |-> "z1"]}

\* the records a zone may hold at the start
Templates ==
  {ResourceRecord(1, NameA, "A", RdataA("t1"), 60),
   ResourceRecord(2, NameA, "A", RdataA("t1"), 60),
   ResourceRecord(3, NameA, "CNAME", RdataCname("t2"), 300),
   ResourceRecord(4, NameB, "A", RdataA("t1"), 60),
   ResourceRecord(5, NameA, "A", RdataNotMap, 60)}

DistinctIds(recs) ==
  \A k, l \in 1..Len(recs) : recs[k].ID = recs[l].ID => k = l

\* the readable records stand in the order of their ids; the unreadable one
\* stands anywhere
ReadableInIdOrder(recs) ==
  \A k, l \in 1..Len(recs) :
    (k < l /\ recs[k].Rdata.kind # "notmap" /\ recs[l].Rdata.kind # "notmap")
      => recs[k].ID < recs[l].ID

InitialZones ==
  {s \in SeqsUpTo(Templates, MaxRemote) :
     DistinctIds(s) /\ ReadableInIdOrder(s)}

\* the ids the service gives to new records follow those of the templates
FirstNewId == Cardinality(Templates) + 1

\* the states before NewProvider: the configured zones, the zone's records,
\* and the callers, each with its record, its zone and a number of calls
StartWith(inputs, zones, procs, calls) ==
  /\ \E recs \in zones :
       store = [z \in {ZONEIDFORTESTING, "z1", "z2"} |->
                  IF z = ZONEIDFORTESTING THEN recs ELSE <<>>]
  /\ nextId = FirstNewId
  /\ faults = MaxFaults
  /\ dnsServices = {}
  /\ \E in \in inputs :
       /\ provider = [state |-> "new", Zones |-> in.map]
       /\ call = [p \in procs |-> IdleCall(in.record, in.zone, calls)]

\* one caller that makes one call
Start(inputs, zones) == StartWith(inputs, zones, {1}, 1)

Init == Start(CallerInputs, InitialZones)

\* requested TTLs: the allowed values and their neighbours
TTLInputs ==
  {AllowedTTLs[k] + d : k \in 1..Len(AllowedTTLs), d \in -TTLSpread..TTLSpread}

TTLRecords == {DNSRecord(NameA, "A", <<"t1", "t2">>, ttl) : ttl \in TTLInputs}

TTLZones ==
  {<<>>, <<ResourceRecord(1, NameA, "A", RdataA("t1"), 60)>>}

InitTTL ==
  Start([map : {{"z1"}}, record : TTLRecords, zone : {"z1"}], TTLZones)

\* a caller that calls again with the same record and zone: two targets,
\* the same or not, over a zone that holds some, one or none of them
RetryRecords ==
  {DNSRecord(NameA, ty, ts, 60) :
     ty \in {"A", "CNAME"}, ts \in {<<"t1", "t2">>, <<"t1", "t1">>}}

RetryZones ==
  {s \in SeqsUpTo({ResourceRecord(1, NameA, "A", RdataA("t1"), 60),
                   ResourceRecord(3, NameA, "CNAME", RdataCname("t2"), 300)},
                  MaxRemote) : DistinctIds(s) /\ ReadableInIdOrder(s)}

InitRetry ==
  StartWith([map : {{"z1"}}, record : RetryRecords, zone : {"z1"}],
            RetryZones, {1}, MaxCalls)

\* names with no, one and two trailing dots, over a zone that may hold a
\* record under the name without a dot and one under the name with one
DottedRecord == ResourceRecord(2, NameADot, "A", RdataA("t1"), 60)

NamedRecords ==
  {DNSRecord(n, "A", ts, 60) :
     n \in {NameA, NameADot, NameADotDot}, ts \in {<<"t1">>, <<"t2", "t1">>}}

NamedZones ==
  {s \in SeqsUpTo({ResourceRecord(1, NameA, "A", RdataA("t1"), 60),
                   DottedRecord,
                   ResourceRecord(3, NameA, "CNAME", RdataCname("t2"), 300)},
                  MaxRemote) : DistinctIds(s) /\ ReadableInIdOrder(s)}

InitNames ==
  Start([map : {{"z1"}}, record : NamedRecords, zone : {"z1"}], NamedZones)

\* two callers with the same record and zone, one call each, over a zone
\* that holds no record of that name and target, or one
Callers == {1, 2}

SharedRecords == {DNSRecord(NameA, "A", <<"t1">>, 60)}

SharedZones ==
  {<<>>,
   <<ResourceRecord(4, NameB, "A", RdataA("t1"), 60)>>,
   <<ResourceRecord(1, NameA, "A", RdataA("t1"), 60)>>}

InitShared ==
  StartWith([map : {{"z1"}}, record : SharedRecords, zone : {"z1"}],
            SharedZones, Callers, 1)

Next ==
  \/ NewProvider
  \/ \E p \in Procs : Ensure(p)
  \/ \E p \in Procs : Replace(p)
  \/ \E p \in Procs : Delete(p)
  \/ \E p \in Procs : ListResourceRecords(p)
  \/ \E p \in Procs : UpdateResourceRecord(p)
  \/ \E p \in Procs : CreateResourceRecord(p)
  \/ \E p \in Procs : DeleteResourceRecord(p)

Spec == Init /\ [][Next]_vars
SpecRetry == InitRetry /\ [][Next]_vars
SpecNames == InitNames /\ [][Next]_vars
SpecShared == InitShared /\ [][Next]_vars

\* the same program, started on every requested TTL
SpecTTL == InitTTL /\ [][Next]_vars

\* zones that also hold a record of another type
OtherTypeRecord == ResourceRecord(2, NameA, "TXT", RdataText("t1"), 60)

TypedZones ==
  {s \in SeqsUpTo({ResourceRecord(1, NameA, "A", RdataA("t1"), 60),
                   ResourceRecord(5, NameA, "A", RdataNotMap, 60),
                   OtherTypeRecord}, MaxRemote) : DistinctIds(s)}

TypedRecords ==
  {DNSRecord(NameA, ty, ts, 60) :
     ty \in {"A", "CNAME"}, ts \in {<<"t1">>, <<"t1", "t2">>}}

InitTypes ==
  Start([map : {{"z1"}}, record : TypedRecords, zone : {"z1"}], TypedZones)

\* the same program, started on zones with records of another type
SpecTypes == InitTypes /\ [][Next]_vars

(***************************************************************************)
(* Properties.                                                             *)
(***************************************************************************)
IsEnsure(c) == c.op = "Ensure" \/ c.op = "Replace"
Entered(c) == c.op # "none"
Done(c) == c.pc = "done"

\* the input a call rejects: nil record, empty name, type or targets, or
\* empty zone id
BadInput(c) ==
  \/ c.desired.isNil
  \/ c.desired.DNSName = <<>>
  \/ c.desired.RecordType = ""
  \/ c.desired.Targets = <<>>
  \/ c.zone = ""

\* C1: a call of Ensure, Replace or Delete whose record is nil or has an empty
\* name, type or target list, or whose zone id is empty, returns InvalidInput
\* and makes no remote call, whatever the client map and the zone hold.
C1_InvalidInputNoRemoteCall ==
  \A p \in Procs :
    (Entered(call[p]) /\ BadInput(call[p]))
      => /\ Done(call[p])
         /\ call[p].ret.kind = "InvalidInput"
         /\ call[p].ops = <<>>

\* a Delete with an empty name on a known zone that holds records is rejected
C1_Witness ==
  \E p \in Procs :
    /\ call[p].op = "Delete"
    /\ ~call[p].desired.isNil
    /\ call[p].desired.DNSName = <<>>
    /\ call[p].desired.Targets # <<>>
    /\ call[p].zone \in dnsServices
    /\ store[ZONEIDFORTESTING] # <<>>
    /\ call[p].ret.kind = "InvalidInput"
    /\ call[p].ops = <<>>

\* the name without one trailing "."
Stripped(n) ==
  IF n # <<>> /\ n[Len(n)] = "." THEN SubSeq(n, 1, Len(n) - 1) ELSE n

\* a listed record whose payload cannot be read
Unparseable(rr) == rr.Type \in {"CNAME", "A"} /\ rr.Rdata.kind = "notmap"

\* a listed record with this name and this target in its payload
IsMatch(rr, name, t) ==
  /\ rr.Name = name
  /\ \/ rr.Type = "CNAME" /\ rr.Rdata.kind = "cname" /\ rr.Rdata.value = t
     \/ rr.Type = "A" /\ rr.Rdata.kind = "ip" /\ rr.Rdata.value = t

\* a list call whose records the call went on with
ListedOK(e) ==
  /\ e.op = "List"
  /\ e.result # "nil"
  /\ e.err => e.status \in {NoResponse, StatusNotFound}

AllParseable(recs) == \A m \in 1..Len(recs) : ~Unparseable(recs[m])
MatchPositions(recs, name, t) ==
  {m \in 1..Len(recs) : IsMatch(recs[m], name, t)}

\* the ids of the records of recs that match, in the order of recs
MatchIds(recs, name, t) ==
  LET F[m \in 0..Len(recs)] ==
        IF m = 0 THEN <<>>
        ELSE IF IsMatch(recs[m], name, t) THEN Append(F[m - 1], recs[m].ID)
             ELSE F[m - 1]
  IN  F[Len(recs)]

IsCreate(e) == e.op = "Create"
IsUpdate(e) == e.op = "Update"
IsDelete(e) == e.op = "Delete"
IsMutation(e) == e.op = "Create" \/ e.op = "Update"

\* the remote calls of one kind a call has made for its i-th target
OpsFor(c, i, kind) ==
  LET T(e) == e.i = i /\ e.op = kind IN SelectSeq(c.ops, T)

MutationsOf(c) == SelectSeq(c.ops, IsMutation)

IsPrefix(s, t) == Len(s) <= Len(t) /\ s = SubSeq(t, 1, Len(s))

\* the pass of the i-th target is over
PassOver(c, i) == Done(c) \/ c.i > i

\* C2: when the records listed for a target of Ensure can all be read and
\* none of them has (normalized name, that target), Ensure issues for that
\* target exactly one Create, of (normalized name, desired type, that target),
\* and no Update; with an empty list and one target: one Create, no Update.
C2_NoMatchCreatesOnce ==
  \A p \in Procs :
    IsEnsure(call[p]) =>
      \A k \in 1..Len(call[p].ops) :
        LET c == call[p]
            e == c.ops[k]
            name == Stripped(c.desired.DNSName)
        IN  (/\ ListedOK(e)
             /\ AllParseable(e.records)
             /\ MatchPositions(e.records, name,
                               c.desired.Targets[e.i]) = {})
              => /\ OpsFor(c, e.i, "Update") = <<>>
                 /\ IF c.pc = "create" /\ c.i = e.i
                    THEN OpsFor(c, e.i, "Create") = <<>>
                    ELSE LET cr == OpsFor(c, e.i, "Create")
                         IN  /\ Len(cr) = 1
                             /\ cr[1].name = name
                             /\ cr[1].type = c.desired.RecordType
                             /\ cr[1].target = c.desired.Targets[e.i]

\* an Ensure of one target over an empty zone has made one Create, no Update
C2_Witness ==
  \E p \in Procs :
    /\ call[p].op = "Ensure"
    /\ call[p].ret = ReturnNil
    /\ Len(call[p].desired.Targets) = 1
    /\ Len(call[p].ops) = 2
    /\ ListedOK(call[p].ops[1]) /\ call[p].ops[1].records = <<>>
    /\ IsCreate(call[p].ops[2]) /\ ~call[p].ops[2].err

\* a list entry of an Ensure whose records can all be read and hold at least
\* one record with (normalized name, the target of that pass)
ListedWithMatch(c, e) ==
  /\ ListedOK(e)
  /\ AllParseable(e.records)
  /\ MatchPositions(e.records, Stripped(c.desired.DNSName),
                    c.desired.Targets[e.i]) # {}

Ids(ops) == [k \in 1..Len(ops) |-> ops[k].id]

\* C3 as stated: a target that matches listed records gets exactly one Update,
\* addressed to a matching record, and no Create, also when several listed
\* records have the same (name, target).
C3_Original ==
  \A p \in Procs :
    IsEnsure(call[p]) =>
      \A k \in 1..Len(call[p].ops) :
        LET c == call[p]
            e == c.ops[k]
            up == OpsFor(c, e.i, "Update")
        IN  ListedWithMatch(c, e)
              => /\ OpsFor(c, e.i, "Create") = <<>>
                 /\ Len(up) <= 1
                 /\ PassOver(c, e.i)
                      => /\ Len(up) = 1
                         /\ \E m \in MatchPositions(e.records,
                                        Stripped(c.desired.DNSName),
                                        c.desired.Targets[e.i]) :
                              e.records[m].ID = up[1].id

\* C3: a target that matches listed records, all of them readable, gets no
\* Create and one Update per matching listed record, in the order of the list
\* and addressed to that record's id, up to an Update that fails; so exactly
\* one Update when exactly one listed record matches.
C3_UpdatePerMatch ==
  \A p \in Procs :
    IsEnsure(call[p]) =>
      \A k \in 1..Len(call[p].ops) :
        LET c == call[p]
            e == c.ops[k]
            up == OpsFor(c, e.i, "Update")
            ids == MatchIds(e.records, Stripped(c.desired.DNSName),
                            c.desired.Targets[e.i])
        IN  ListedWithMatch(c, e)
              => /\ OpsFor(c, e.i, "Create") = <<>>
                 /\ IsPrefix(Ids(up), ids)
                 /\ \A n \in 1..Len(up) :
                      /\ up[n].target = c.desired.Targets[e.i]
                      /\ up[n].name = Stripped(c.desired.DNSName)
                      /\ up[n].err => n = Len(up) /\ Done(c)
                 /\ PassOver(c, e.i)
                      => /\ Len(up) >= 1
                         /\ ~up[Len(up)].err => Ids(up) = ids

\* an Ensure of one target over two records with its (name, target) has
\* updated both and created none
C3_Witness ==
  \E p \in Procs :
    /\ call[p].op = "Ensure"
    /\ call[p].ret = ReturnNil
    /\ Len(call[p].desired.Targets) = 1
    /\ Len(call[p].ops) = 3
    /\ ListedWithMatch(call[p], call[p].ops[1])
    /\ IsUpdate(call[p].ops[2]) /\ IsUpdate(call[p].ops[3])
    /\ call[p].ops[2].id # call[p].ops[3].id

Distinct(s) == \A k, l \in 1..Len(s) : s[k] = s[l] => k = l

\* the list entry of the pass of the i-th target
ListOf(c, i) == OpsFor(c, i, "List")[1]

SuccessfulEnsure(c) ==
  IsEnsure(c) /\ c.ret = ReturnNil /\ Distinct(c.desired.Targets)

\* C4 as stated: a successful Ensure of distinct targets issues exactly one
\* mutation per target, the i-th for the i-th target, an Update when the
\* target matches a listed record and a Create when it does not.
C4_Original ==
  \A p \in Procs :
    SuccessfulEnsure(call[p]) =>
      LET c == call[p]
          muts == MutationsOf(c)
      IN  /\ Len(muts) = Len(c.desired.Targets)
          /\ \A i \in 1..Len(muts) :
               /\ muts[i].i = i
               /\ muts[i].target = c.desired.Targets[i]
               /\ IsUpdate(muts[i])
                    <=> MatchPositions(ListOf(c, i).records,
                                       Stripped(c.desired.DNSName),
                                       c.desired.Targets[i]) # {}

\* C4: a successful Ensure of distinct targets handles the targets in the
\* order of the list, each on its own: one Create for a target that matches
\* no listed record, one Update per matching listed record for a target that
\* matches; so when no target matches two listed records there is exactly one
\* mutation per target and the i-th mutation is for the i-th target.
C4_PerTargetInOrder ==
  \A p \in Procs :
    SuccessfulEnsure(call[p]) =>
      LET c == call[p]
          muts == MutationsOf(c)
          n == Len(c.desired.Targets)
          name == Stripped(c.desired.DNSName)
          matches(i) == MatchIds(ListOf(c, i).records, name,
                                 c.desired.Targets[i])
      IN  /\ \A k \in 1..Len(muts) :
               /\ muts[k].i \in 1..n
               /\ muts[k].target = c.desired.Targets[muts[k].i]
               /\ k > 1 => muts[k - 1].i <= muts[k].i
          /\ \A i \in 1..n :
               /\ Len(OpsFor(c, i, "List")) = 1
               /\ IF matches(i) = <<>>
                  THEN /\ Len(OpsFor(c, i, "Create")) = 1
                       /\ OpsFor(c, i, "Update") = <<>>
                  ELSE /\ OpsFor(c, i, "Create") = <<>>
                       /\ Ids(OpsFor(c, i, "Update")) = matches(i)
          /\ (\A i \in 1..n : Len(matches(i)) <= 1)
               => /\ Len(muts) = n
                  /\ \A i \in 1..n : muts[i].i = i

\* an Ensure of two targets, the first matched and the second not, has made
\* one Update and then one Create
C4_Witness ==
  \E p \in Procs :
    /\ SuccessfulEnsure(call[p])
    /\ Len(call[p].desired.Targets) = 2
    /\ Len(MutationsOf(call[p])) = 2
    /\ IsUpdate(MutationsOf(call[p])[1]) /\ MutationsOf(call[p])[1].i = 1
    /\ IsCreate(MutationsOf(call[p])[2]) /\ MutationsOf(call[p])[2].i = 2

\* the ids of the listed records that match the targets of c, target by
\* target, each in the order of the list
AllMatchIds(c, recs) ==
  LET F[i \in 0..Len(c.desired.Targets)] ==
        IF i = 0 THEN <<>>
        ELSE F[i - 1] \o MatchIds(recs, Stripped(c.desired.DNSName),
                                  c.desired.Targets[i])
  IN  F[Len(c.desired.Targets)]

DeletesOf(c) == SelectSeq(c.ops, IsDelete)

NoFault(c) == \A k \in 1..Len(c.ops) : ~c.ops[k].fault

\* C5: a Delete that returns nil has issued a DeleteRecord for every listed
\* record with (normalized name, t) for a desired target t, duplicates
\* included; when the service answered every call of the Delete faithfully, no
\* record of the zone with a desired (name, target) is left.
C5_DeleteRemovesEveryMatch ==
  \A p \in Procs :
    (call[p].op = "Delete" /\ call[p].ret = ReturnNil) =>
      LET c == call[p]
          zone == store[ZONEIDFORTESTING]
      IN  /\ ListedOK(c.ops[1])
          /\ Ids(DeletesOf(c)) = AllMatchIds(c, c.ops[1].records)
          /\ NoFault(c)
               => \A m \in 1..Len(zone), i \in 1..Len(c.desired.Targets) :
                    ~IsMatch(zone[m], Stripped(c.desired.DNSName),
                             c.desired.Targets[i])

\* a Delete has removed two records with the same (name, target)
C5_Witness ==
  \E p \in Procs :
    /\ call[p].op = "Delete" /\ call[p].ret = ReturnNil
    /\ NoFault(call[p])
    /\ Len(call[p].desired.Targets) = 1
    /\ Len(DeletesOf(call[p])) = 2
    /\ DeletesOf(call[p])[1].id # DeletesOf(call[p])[2].id
    /\ \A k \in 1..2 : ~DeletesOf(call[p])[k].err

ExpectedTTL(t) ==
  IF t \in {1, 60, 120, 300, 600, 900, 1800, 3600, 7200, 18000, 43200}
  THEN t ELSE 120

\* C6: the TTL Ensure works with is the requested TTL when that is one of
\* 1, 60, 120, 300, 600, 900, 1800, 3600, 7200, 18000, 43200 and 120 for any
\* other request, and every Create and Update of the call carries it.
C6_NormalizedTTL ==
  \A p \in Procs :
    (IsEnsure(call[p]) /\ call[p].i >= 1) =>
      /\ call[p].record.RecordTTL = ExpectedTTL(call[p].desired.RecordTTL)
      /\ \A k \in 1..Len(call[p].ops) :
           IsMutation(call[p].ops[k])
             => call[p].ops[k].ttl = ExpectedTTL(call[p].desired.RecordTTL)

\* an Ensure asked for a TTL outside the set has updated and created with 120
C6_Witness ==
  \E p \in Procs :
    /\ IsEnsure(call[p])
    /\ call[p].desired.RecordTTL = 43201
    /\ \E k, l \in 1..Len(call[p].ops) :
         /\ IsUpdate(call[p].ops[k]) /\ call[p].ops[k].ttl = 120
         /\ IsCreate(call[p].ops[l]) /\ call[p].ops[l].ttl = 120

\* C7: a list call answered 404 counts as an empty list, whatever result comes
\* with it: Delete returns nil without a DeleteRecord, Ensure goes on to
\* Create the target.
C7_ListNotFoundIsEmpty ==
  \A p \in Procs :
    \A k \in 1..Len(call[p].ops) :
      LET c == call[p]
          e == c.ops[k]
      IN  (e.op = "List" /\ e.status = StatusNotFound) =>
            IF c.op = "Delete"
            THEN Done(c) /\ c.ret = ReturnNil /\ Len(c.ops) = 1
            ELSE IF k = Len(c.ops)
                 THEN c.pc = "create" /\ c.i = e.i
                 ELSE IsCreate(c.ops[k + 1]) /\ c.ops[k + 1].i = e.i

\* an answer that is the service's success, or a 404 to a DeleteRecord
NoOtherFailure(e) ==
  \/ IsDelete(e) /\ e.status = StatusNotFound
  \/ ~e.err /\ e.status = StatusOK

\* C8: a DeleteRecord answered 404 is no error for Delete: the call does not
\* return on it, goes on through the remaining matches and, when nothing else
\* fails, returns nil.
C8_DeleteNotFoundIsNoError ==
  \A p \in Procs :
    call[p].op = "Delete" =>
      LET c == call[p]
      IN  /\ \A k \in 1..Len(c.ops) :
               (IsDelete(c.ops[k]) /\ c.ops[k].status = StatusNotFound)
                 => ~(k = Len(c.ops) /\ c.ret.kind = "RemoteWriteFailed")
          /\ (/\ Done(c)
              /\ \E k \in 1..Len(c.ops) :
                   IsDelete(c.ops[k]) /\ c.ops[k].status = StatusNotFound
              /\ \A k \in 1..Len(c.ops) : NoOtherFailure(c.ops[k])
              /\ AllParseable(c.ops[1].records))
               => /\ c.ret = ReturnNil
                  /\ Ids(DeletesOf(c)) = AllMatchIds(c, c.ops[1].records)

\* a Delete got an error with 404 for one record, went on to delete the next
\* one and returned nil
C8_Witness ==
  \E p \in Procs :
    /\ call[p].op = "Delete" /\ call[p].ret = ReturnNil
    /\ \E k \in 1..(Len(call[p].ops) - 1) :
         /\ IsDelete(call[p].ops[k])
         /\ call[p].ops[k].err /\ call[p].ops[k].status = StatusNotFound
         /\ IsDelete(call[p].ops[k + 1])
         /\ call[p].ops[k + 1].id # call[p].ops[k].id

\* C9: an UpdateRecord answered 404 is no error for Ensure: the call does not
\* return an error on it.
C9_UpdateNotFoundIsNoError ==
  \A p \in Procs :
    IsEnsure(call[p]) =>
      \A k \in 1..Len(call[p].ops) :
        (IsUpdate(call[p].ops[k]) /\ call[p].ops[k].status = StatusNotFound)
          => ~(k = Len(call[p].ops) /\ call[p].ret.kind = "RemoteWriteFailed")

\* C10: a remote call that fails with anything but 404 (another status, or no
\* response at all) ends the call with an error; the failure is never
\* swallowed.
C10_FailurePropagates ==
  \A p \in Procs :
    \A k \in 1..Len(call[p].ops) :
      (call[p].ops[k].err /\ call[p].ops[k].status # StatusNotFound)
        => /\ k = Len(call[p].ops)
           /\ Done(call[p])
           /\ call[p].ret.kind \notin {"running", "nil"}

\* a listed record whose payload is neither a CNAME payload nor an A payload
OtherPayload(rr) == rr.Rdata.kind \notin {"cname", "ip"}

\* C11: when the listed records hold a record whose payload is neither a CNAME
\* payload nor an A payload, a record of another type included, Ensure and
\* Delete end with the MalformedRemoteRecord error (or with the error of a
\* remote write that failed before the scan came to it) and never skip it.
C11_OtherPayloadIsAnError ==
  \A p \in Procs :
    \A k \in 1..Len(call[p].ops) :
      (/\ ListedOK(call[p].ops[k])
       /\ \E m \in 1..Len(call[p].ops[k].records) :
            OtherPayload(call[p].ops[k].records[m]))
        => /\ call[p].i = call[p].ops[k].i \/ call[p].op = "Delete"
           /\ Done(call[p])
                => call[p].ret.kind \in {"MalformedRemoteRecord",
                                         "RemoteWriteFailed"}

\* the service carried out this mutation
Carried(e) == IsMutation(e) /\ ~e.err /\ e.status = StatusOK

\* the zone holds the record this mutation wrote
Reflected(e, zone) ==
  \E m \in 1..Len(zone) :
    /\ zone[m].Name = e.name
    /\ zone[m].Rdata.value = e.target
    /\ zone[m].TTL = e.ttl
    /\ IsUpdate(e) => zone[m].ID = e.id

\* C12: when the Create or the Update of a target fails with another error
\* than 404, Ensure returns the error at once: that call is its last remote
\* call, and what it wrote for the targets before stays in the zone.
C12_WriteFailureAborts ==
  \A p \in Procs :
    IsEnsure(call[p]) =>
      \A k \in 1..Len(call[p].ops) :
        LET c == call[p]
            e == c.ops[k]
        IN  (IsMutation(e) /\ e.err /\ e.status # StatusNotFound)
              => /\ k = Len(c.ops)
                 /\ Done(c) /\ c.ret.kind = "RemoteWriteFailed"
                 /\ c.i = e.i
                 /\ \A j \in 1..(k - 1) :
                      /\ ~IsDelete(c.ops[j])
                      /\ Carried(c.ops[j])
                           => Reflected(c.ops[j], store[ZONEIDFORTESTING])

\* an Ensure of two targets wrote the first and failed on the second
C12_Witness ==
  \E p \in Procs :
    /\ IsEnsure(call[p])
    /\ call[p].ret.kind = "RemoteWriteFailed"
    /\ Len(call[p].desired.Targets) = 2
    /\ call[p].desired.Targets[1] # call[p].desired.Targets[2]
    /\ \E j, k \in 1..Len(call[p].ops) :
         /\ Carried(call[p].ops[j]) /\ call[p].ops[j].i = 1
         /\ Reflected(call[p].ops[j], store[ZONEIDFORTESTING])
         /\ IsCreate(call[p].ops[k]) /\ call[p].ops[k].i = 2
         /\ call[p].ops[k].err
         /\ call[p].ops[k].status = StatusRequestTimeout

\* C14: a call of Ensure, Replace or Delete with a valid record and a
\* non-empty zone id that the client map does not hold returns UnknownZone
\* and makes no remote call.
C14_UnknownZoneNoRemoteCall ==
  \A p \in Procs :
    (Entered(call[p]) /\ ~BadInput(call[p]) /\ call[p].zone \notin dnsServices)
      => /\ Done(call[p])
         /\ call[p].ret.kind = "UnknownZone"
         /\ call[p].ops = <<>>

\* a Delete on a zone the provider has no client for, the zone holding a
\* record the Delete would have matched
C14_Witness ==
  \E p \in Procs :
    /\ call[p].op = "Delete"
    /\ ~BadInput(call[p])
    /\ dnsServices # {}
    /\ call[p].zone \notin dnsServices
    /\ \E m \in 1..Len(store[ZONEIDFORTESTING]) :
         IsMatch(store[ZONEIDFORTESTING][m], Stripped(call[p].desired.DNSName),
                 call[p].desired.Targets[1])
    /\ call[p].ret.kind = "UnknownZone"
    /\ call[p].ops = <<>>

\* the messages of the checks that fail on this record and zone id
FailedChecks(record, zone) ==
  {m \in {"dns record name is empty", "dns record type is empty",
          "dns record content is empty", "dns zone id is empty"} :
     \/ m = "dns record name is empty" /\ record.DNSName = <<>>
     \/ m = "dns record type is empty" /\ record.RecordType = ""
     \/ m = "dns record content is empty" /\ record.Targets = <<>>
     \/ m = "dns zone id is empty" /\ zone = ""}

\* C16: for a record that is not nil, the InvalidInput error of a call holds
\* one message for each of the four checks (name, type, targets, zone id)
\* that fails, and no other message.
C16_EveryFailedCheckReported ==
  \A p \in Procs :
    (Entered(call[p]) /\ ~call[p].desired.isNil /\ BadInput(call[p]))
      => /\ call[p].ret.kind = "InvalidInput"
         /\ {call[p].ret.errs[k] : k \in 1..Len(call[p].ret.errs)}
              = FailedChecks(call[p].desired, call[p].zone)
         /\ Len(call[p].ret.errs)
              = Cardinality(FailedChecks(call[p].desired, call[p].zone))

\* a call on which all four checks fail returns four messages
C16_Witness ==
  \E p \in Procs :
    /\ Entered(call[p])
    /\ ~call[p].desired.isNil
    /\ call[p].ret.kind = "InvalidInput"
    /\ Cardinality(FailedChecks(call[p].desired, call[p].zone)) = 4
    /\ Len(call[p].ret.errs) = 4

\* C17: no failure is fatal: whatever the zone request of NewProvider
\* answers, and whatever the remote calls of Ensure, Replace and Delete
\* answer, the program never reaches a panic.
C17_NoPanic == provider.state # "panic"

\* the service carried out this call
WentThrough(e) == ~e.err /\ e.status = StatusOK

\* a record with the normalized name and one of the targets of the call
Wanted(c, rr) ==
  \E i \in 1..Len(c.desired.Targets) :
    IsMatch(rr, Stripped(c.desired.DNSName), c.desired.Targets[i])

\* the records the last list before the k-th remote call returned
ListedBefore(c, k) ==
  LET ls == {l \in 1..(k - 1) : c.ops[l].op = "List"}
  IN  IF ls = {} THEN <<>>
      ELSE c.ops[CHOOSE l \in ls : \A l2 \in ls : l2 <= l].records

\* C20: Ensure issues no Delete and Delete issues no Create or Update; every
\* Update and Delete is addressed to a listed record that has the normalized
\* name and a desired target; and every record the zone held when the call
\* was entered that has not is still in the zone, unchanged.
C20_OthersUntouched ==
  \A p \in Procs :
    LET c == call[p] IN
    Entered(c) /\ ~BadInput(c) =>
      /\ \A k \in 1..Len(c.ops) :
           /\ IsEnsure(c) => ~IsDelete(c.ops[k])
           /\ c.op = "Delete" => ~IsMutation(c.ops[k])
           /\ (IsUpdate(c.ops[k]) \/ IsDelete(c.ops[k]))
                => \E m \in 1..Len(ListedBefore(c, k)) :
                     /\ ListedBefore(c, k)[m].ID = c.ops[k].id
                     /\ Wanted(c, ListedBefore(c, k)[m])
      /\ \A m \in 1..Len(c.prev.zone) :
           ~Wanted(c, c.prev.zone[m])
             => \E n \in 1..Len(store[ZONEIDFORTESTING]) :
                  store[ZONEIDFORTESTING][n] = c.prev.zone[m]

\* a call has changed the zone, which held a matching record and another
\* one of the same target under another name, and the other one is there
C20_Witness ==
  \E p \in Procs :
    LET c == call[p] IN
    /\ Done(c) /\ c.ret = ReturnNil
    /\ \E k \in 1..Len(c.ops) :
         (IsUpdate(c.ops[k]) \/ IsDelete(c.ops[k])) /\ WentThrough(c.ops[k])
    /\ \E m, n \in 1..Len(c.prev.zone) :
         /\ Wanted(c, c.prev.zone[m])
         /\ ~Wanted(c, c.prev.zone[n])
         /\ c.prev.zone[n].Name # Stripped(c.desired.DNSName)
         /\ \E i \in 1..Len(c.desired.Targets) :
              c.prev.zone[n].Rdata.value = c.desired.Targets[i]
         /\ \E q \in 1..Len(store[ZONEIDFORTESTING]) :
              store[ZONEIDFORTESTING][q] = c.prev.zone[n]

\* the positions of the records of a zone with the normalized name and the
\* i-th target of the call
Holders(c, zone, i) ==
  {m \in 1..Len(zone) :
     IsMatch(zone[m], Stripped(c.desired.DNSName), c.desired.Targets[i])}

AtMostOnePerTarget(c, zone) ==
  \A i \in 1..Len(c.desired.Targets) : Cardinality(Holders(c, zone, i)) <= 1

\* C18: in an Ensure, every Create and Update of a pass comes after a list of
\* that pass, and that list shows what the creates before it wrote; no
\* (name, target) is created again after a Create the service carried out;
\* and a zone that held at most one record per desired (name, target) when
\* the call was entered still does, also when the targets repeat a value.
C18_RelistedPerTarget ==
  \A p \in Procs :
    LET c == call[p] IN
    (IsEnsure(c) /\ ~BadInput(c)) =>
      /\ \A k \in 1..Len(c.ops) :
           IsMutation(c.ops[k])
             => \E l \in 1..(k - 1) :
                  /\ c.ops[l].op = "List" /\ c.ops[l].i = c.ops[k].i
                  /\ \A h \in 1..(l - 1) :
                       (IsCreate(c.ops[h]) /\ Carried(c.ops[h]))
                         => Reflected(c.ops[h], c.ops[l].records)
      /\ \A h, k \in 1..Len(c.ops) :
           (/\ h < k /\ IsCreate(c.ops[h]) /\ IsCreate(c.ops[k])
            /\ c.ops[h].name = c.ops[k].name
            /\ c.ops[h].target = c.ops[k].target)
             => ~Carried(c.ops[h])
      /\ AtMostOnePerTarget(c, c.prev.zone)
           => AtMostOnePerTarget(c, store[ZONEIDFORTESTING])

\* an Ensure of the same target twice over a zone without that record has
\* created it for the first and updated it for the second
C18_Witness ==
  \E p \in Procs :
    LET c == call[p] IN
    /\ IsEnsure(c) /\ c.ret = ReturnNil /\ NoFault(c)
    /\ Len(c.desired.Targets) = 2
    /\ c.desired.Targets[1] = c.desired.Targets[2]
    /\ Holders(c, c.prev.zone, 1) = {}
    /\ Len(OpsFor(c, 1, "Create")) = 1
    /\ Len(OpsFor(c, 2, "Update")) = 1
    /\ Len(OpsFor(c, 2, "Create")) = 0
    /\ Cardinality(Holders(c, store[ZONEIDFORTESTING], 1)) = 1

\* what a zone holds, ids aside
RecordSet(zone) ==
  {<<zone[m].Name, zone[m].Type, zone[m].Rdata, zone[m].TTL>> :
     m \in 1..Len(zone)}

\* an Ensure that follows an Ensure of the same caller
SecondRun(c) == IsEnsure(c) /\ c.prev.op \in {"Ensure", "Replace"}

\* the run before ended without an error, the service answering faithfully
AfterSuccess(c) == c.prev.ret = ReturnNil /\ ~c.prev.fault

\* the run before ended with the error of a remote call
AfterAbort(c) ==
  c.prev.ret.kind \in {"RemoteReadFailed", "InvalidResult",
                       "MalformedRemoteRecord", "RemoteWriteFailed"}

NoCreate(c) == \A k \in 1..Len(c.ops) : ~IsCreate(c.ops[k])

Key(n) == IF n[Len(n)] = "." THEN [k \in 1..(Len(n) - 1) |-> n[k]] ELSE n

\* the ids of the listed records with this name and a desired target, in the
\* order Delete meets them
KeyMatchIds(c, recs) ==
  LET F[i \in 0..Len(c.desired.Targets)] ==
        IF i = 0 THEN <<>>
        ELSE F[i - 1] \o MatchIds(recs, Key(c.desired.DNSName),
                                  c.desired.Targets[i])
  IN  F[Len(c.desired.Targets)]

\* C15: a call with the name n or with n followed by "." works with the key
\* n, and a call with n followed by two dots with n followed by one: Create
\* and Update send the key as the name; every Update and Delete is addressed
\* to a listed record of that name; and when the service answers faithfully,
\* a pass of Ensure updates exactly the listed records with the key and the
\* target, creating when there is none, and a Delete that returns nil has
\* deleted exactly the listed records with the key and a desired target.
C15_OneTrailingDotStripped ==
  \A p \in Procs :
    LET c == call[p] IN
    (Entered(c) /\ ~BadInput(c) /\ c.zone \in dnsServices) =>
      /\ c.DNSName = Key(c.desired.DNSName)
      /\ \A k \in 1..Len(c.ops) :
           /\ IsMutation(c.ops[k]) => c.ops[k].name = Key(c.desired.DNSName)
           /\ (IsUpdate(c.ops[k]) \/ IsDelete(c.ops[k]))
                => \E m \in 1..Len(ListedBefore(c, k)) :
                     /\ ListedBefore(c, k)[m].ID = c.ops[k].id
                     /\ ListedBefore(c, k)[m].Name = Key(c.desired.DNSName)
      /\ (IsEnsure(c) /\ NoFault(c)) =>
           \A i \in 1..Len(c.desired.Targets) :
             PassOver(c, i) =>
               /\ Ids(OpsFor(c, i, "Update"))
                    = MatchIds(ListOf(c, i).records, Key(c.desired.DNSName),
                               c.desired.Targets[i])
               /\ Len(OpsFor(c, i, "Create"))
                    = (IF Ids(OpsFor(c, i, "Update")) = <<>> THEN 1 ELSE 0)
      /\ (c.op = "Delete" /\ NoFault(c) /\ Done(c)) =>
           Ids(DeletesOf(c)) = KeyMatchIds(c, c.ops[1].records)

\* a call with the name "a." has updated or deleted the record named "a"
\* and left the record named "a." with the same target alone
C15_Witness ==
  \E p \in Procs :
    LET c == call[p] IN
    /\ c.desired.DNSName = NameADot
    /\ Done(c) /\ c.ret = ReturnNil /\ NoFault(c)
    /\ \E k \in 1..Len(c.ops), m \in 1..Len(c.prev.zone) :
         /\ IsUpdate(c.ops[k]) \/ IsDelete(c.ops[k])
         /\ c.prev.zone[m].ID = c.ops[k].id
         /\ c.prev.zone[m].Name = NameA
    /\ \E n \in 1..Len(store[ZONEIDFORTESTING]) :
         store[ZONEIDFORTESTING][n] = DottedRecord
    /\ Wanted(c, [DottedRecord EXCEPT !.Name = NameA])

\* C19: no call waits for another: a caller that has not called yet can
\* enter Ensure whatever the other callers are doing, and a call that has
\* listed and is about to list, create or update can do so whatever the zone
\* holds by then.
C19_NoLocking ==
  \A p \in Procs :
    /\ (provider.state = "ready" /\ call[p].pc = "idle" /\ call[p].left > 0)
         => ENABLED Ensure(p)
    /\ call[p].pc = "list" => ENABLED ListResourceRecords(p)
    /\ call[p].pc = "create" => ENABLED CreateResourceRecord(p)
    /\ call[p].pc = "update" => ENABLED UpdateResourceRecord(p)

\* two Ensure calls of the same name, zone and target have both listed a zone
\* without a matching record and both created one: the zone holds two records
\* of that name and target
C19_Witness ==
  \E p, q \in Procs :
    /\ p # q
    /\ \A r \in {p, q} :
         /\ call[r].op = "Ensure" /\ call[r].ret = ReturnNil
         /\ NoFault(call[r])
         /\ Holders(call[r], ListOf(call[r], 1).records, 1) = {}
         /\ Len(OpsFor(call[r], 1, "Create")) = 1
    /\ call[p].desired = call[q].desired /\ call[p].zone = call[q].zone
    /\ Cardinality(Holders(call[p], store[ZONEIDFORTESTING], 1)) = 2

\* C21: when a list the call goes on with holds a record whose payload
\* cannot be read, wherever it stands among the matching records, the call
\* issues no Create, Update or Delete for the target it is scanning.
C21_AbortBeforeMutation ==
  \A p \in Procs :
    \A k \in 1..Len(call[p].ops) :
      (/\ ListedOK(call[p].ops[k])
       /\ \E m \in 1..Len(call[p].ops[k].records) :
            Unparseable(call[p].ops[k].records[m]))
        => \A h \in (k + 1)..Len(call[p].ops) :
             call[p].ops[h].i = call[p].ops[k].i
               => ~IsMutation(call[p].ops[h]) /\ ~IsDelete(call[p].ops[h])

\* C22: every remote call of Ensure, Replace and Delete is addressed to the
\* zone whose id the caller passed in.
C22_AddressedToCallersZone ==
  \A p \in Procs :
    \A k \in 1..Len(call[p].ops) : call[p].ops[k].zone = call[p].zone

====
